---- MODULE Spec2Model ----
(***************************************************************************)
(* ADCSensor: the asynchronous read / reopen poll loop, the sample         *)
(* scaling and the threshold evaluation of one hwmon voltage channel.      *)
(*                                                                         *)
(* Numbers.  A C++ double or float is modelled by its exact value: NaN, or *)
(* a reduced fraction <<n, d>> with d > 0.  `float nvalue` is binary32:    *)
(* every float operation rounds its exact result to FLOAT_MANT_DIG = 24    *)
(* significant bits, nearest-even (RoundF).  All doubles of the model      *)
(* (trip values, scale factors, widened floats) are exactly representable, *)
(* and a double quotient of two floats rounded back to float equals the    *)
(* float-rounded exact quotient (53 >= 2*24 + 2), so one RoundF models     *)
(* `nvalue = (double) nvalue / scale_factor`.                              *)
(***************************************************************************)
EXTENDS Integers, Sequences, FiniteSets, TLC

\* ---------------------------------------------------------------- numbers

NaN == <<0, 0>>

Abs(n) == IF n < 0 THEN -n ELSE n

RECURSIVE GCD(_, _)
GCD(a, b) == IF b = 0 THEN a ELSE GCD(b, a % b)

\* the reduced fraction n / d, d > 0
Norm(n, d) == <<n \div GCD(Abs(n), d), d \div GCD(Abs(n), d)>>

Num(n) == <<n, 1>>

IsNaN(x) == x[2] = 0

\* C++ comparisons of doubles: every comparison with NaN is false, != is true
FEq(x, y) == ~IsNaN(x) /\ ~IsNaN(y) /\ x = y
FNe(x, y) == ~FEq(x, y)
FLt(x, y) == ~IsNaN(x) /\ ~IsNaN(y) /\ x[1] * y[2] < y[1] * x[2]
FGt(x, y) == FLt(y, x)

\* the exact quotient x / y of two numbers, y > 0
QDiv(x, y) == IF IsNaN(x) \/ IsNaN(y) THEN NaN
              ELSE Norm(x[1] * y[2], x[2] * y[1])

\* significand width of binary32
FLOAT_MANT_DIG == 24

RECURSIVE BitLen(_)
BitLen(n) == IF n = 0 THEN 0 ELSE 1 + BitLen(n \div 2)

\* least z with a * 2^z >= b, for 0 < a
RECURSIVE LeadShift(_, _)
LeadShift(a, b) == IF a >= b THEN 0 ELSE 1 + LeadShift(2 * a, b)

\* <<floor(r * 2^s / b) + q * 2^s, remainder>> by binary long division, r < b
RECURSIVE LongDiv(_, _, _, _)
LongDiv(q, r, b, s) ==
    IF s = 0 THEN <<q, r>>
    ELSE IF 2 * r >= b THEN LongDiv(2 * q + 1, 2 * r - b, b, s - 1)
         ELSE LongDiv(2 * q, 2 * r, b, s - 1)

\* round-to-nearest, ties to even, of m + r/b
RoundEven(m, r, b) ==
    IF 2 * r > b \/ (2 * r = b /\ m % 2 = 1) THEN m + 1 ELSE m

\* m / 2^sh reduced, m the rounded significand
Scaled(qr, b, sh) == Norm(RoundEven(qr[1], qr[2], b), 2 ^ sh)

\* a / b >= 2^FLOAT_MANT_DIG: the low t bits of the integer part are rounded
RoundBig(a, D, t) == Norm(RoundEven(a \div D, a % D, D) * (2 ^ t), 1)

\* a / b > 0 with integer part ip of k bits, rounded to FLOAT_MANT_DIG
\* significant bits
RoundBits(a, b, ip, k) ==
    IF k > FLOAT_MANT_DIG
    THEN RoundBig(a, b * (2 ^ (k - FLOAT_MANT_DIG)), k - FLOAT_MANT_DIG)
    ELSE IF ip = 0
         THEN Scaled(LongDiv(0, a, b, FLOAT_MANT_DIG + LeadShift(a, b) - 1),
                     b, FLOAT_MANT_DIG + LeadShift(a, b) - 1)
         ELSE Scaled(LongDiv(ip, a % b, b, FLOAT_MANT_DIG - k),
                     b, FLOAT_MANT_DIG - k)

RoundPos(a, b) == RoundBits(a, b, a \div b, BitLen(a \div b))

\* the number -p
Neg(p) == <<-p[1], p[2]>>

\* conversion of an exact value to float
RoundF(x) ==
    IF IsNaN(x) \/ x[1] = 0 THEN x
    ELSE IF x[1] < 0 THEN Neg(RoundPos(-x[1], x[2]))
         ELSE RoundPos(x[1], x[2])

\* ------------------------------------------------------------- std::stof
\* Text is a sequence of one-character strings.  Stof follows strtof on the
\* texts a hwmon attribute can hold: leading white space, an optional sign,
\* "nan", or decimal digits with an optional fraction and an optional
\* decimal exponent; conversion stops at the first character that does not
\* fit.  No digits: std::invalid_argument.  A magnitude outside the float
\* range (ERANGE): std::out_of_range.

IsSpace(ch) == ch \in {" ", "\t", "\r", "\n"}
IsDigit(ch) == ch \in {"0", "1", "2", "3", "4", "5", "6", "7", "8", "9"}
DigitVal(ch) ==
    CASE ch = "0" -> 0 [] ch = "1" -> 1 [] ch = "2" -> 2 [] ch = "3" -> 3
      [] ch = "4" -> 4 [] ch = "5" -> 5 [] ch = "6" -> 6 [] ch = "7" -> 7
      [] ch = "8" -> 8 [] ch = "9" -> 9

\* first index >= i of s that holds no white space (Len(s) + 1 if none)
RECURSIVE SkipSpaces(_, _)
SkipSpaces(s, i) ==
    IF i <= Len(s) /\ IsSpace(s[i]) THEN SkipSpaces(s, i + 1) ELSE i

\* first index >= i of s that holds no digit
RECURSIVE DigitsEnd(_, _)
DigitsEnd(s, i) ==
    IF i <= Len(s) /\ IsDigit(s[i]) THEN DigitsEnd(s, i + 1) ELSE i

\* first index >= i of s that holds no "0"
RECURSIVE ZerosEnd(_, _)
ZerosEnd(s, i) ==
    IF i <= Len(s) /\ s[i] = "0" THEN ZerosEnd(s, i + 1) ELSE i

\* the number written by the digits s[i .. j-1], continuing acc
RECURSIVE DigitsVal(_, _, _, _)
DigitsVal(s, i, j, acc) ==
    IF i >= j THEN acc ELSE DigitsVal(s, i + 1, j, 10 * acc + DigitVal(s[i]))

HasAt(s, i, ch) == i <= Len(s) /\ s[i] = ch
IsNanAt(s, i) ==
    /\ i + 2 <= Len(s)
    /\ s[i] \in {"n", "N"} /\ s[i + 1] \in {"a", "A"} /\ s[i + 2] \in {"n", "N"}

\* decimal exponents beyond which strtof reports ERANGE
FLT_MAX_10_EXP == 38
FLT_MIN_10_EXP == -37

StofOk(v) == [kind |-> "ok", val |-> v]
StofInvalid == [kind |-> "invalid_argument", val |-> NaN]
StofRange == [kind |-> "out_of_range", val |-> NaN]

\* the value mant * 10^sh
Decimal(mant, sh) ==
    IF sh >= 0 THEN Norm(mant * (10 ^ sh), 1) ELSE Norm(mant, 10 ^ (-sh))

\* the digits are read; mag is the decimal position of the leading digit
StofValue(neg, mant, sh, mag) ==
    IF mant = 0 THEN StofOk(Num(0))
    ELSE IF mag > FLT_MAX_10_EXP + 1 \/ mag < FLT_MIN_10_EXP THEN StofRange
    ELSE StofOk(RoundF(IF neg THEN Neg(Decimal(mant, sh)) ELSE Decimal(mant, sh)))

\* number of significant integer digits, or minus the number of zeros that
\* follow the decimal point when there are none
LeadPos(s, i1, i2, f1, f2) ==
    IF ZerosEnd(s, i1) < i2 THEN i2 - ZerosEnd(s, i1)
    ELSE IF ZerosEnd(s, f1) < f2 THEN f1 - ZerosEnd(s, f1) ELSE 0

\* the mantissa, when it is not too long to matter: a text of more digits
\* than a float holds is decided by its magnitude alone
Mantissa(s, i1, i2, f1, f2) ==
    IF ZerosEnd(s, i1) >= i2 /\ ZerosEnd(s, f1) >= f2 THEN 0
    ELSE IF (i2 - ZerosEnd(s, i1)) + (f2 - f1) > 9 THEN 1
    ELSE DigitsVal(s, f1, f2, DigitsVal(s, i1, i2, 0))

StofScale(s, neg, i1, i2, f1, f2, ex) ==
    StofValue(neg, Mantissa(s, i1, i2, f1, f2), ex - (f2 - f1),
              LeadPos(s, i1, i2, f1, f2) + ex)

\* the exponent digits s[e1 .. e2-1], saturated to stay a small integer
ExpValue(s, eneg, e1, e2) ==
    IF e2 - ZerosEnd(s, e1) > 3 THEN (IF eneg THEN -1000 ELSE 1000)
    ELSE IF eneg THEN -DigitsVal(s, e1, e2, 0) ELSE DigitsVal(s, e1, e2, 0)

ExpDigits(s, eneg, e1) ==
    IF DigitsEnd(s, e1) > e1 THEN ExpValue(s, eneg, e1, DigitsEnd(s, e1)) ELSE 0

\* the decimal exponent that starts at index f2, 0 when there is none
Exponent(s, f2) ==
    IF f2 <= Len(s) /\ s[f2] \in {"e", "E"}
    THEN ExpDigits(s, HasAt(s, f2 + 1, "-"),
                   IF HasAt(s, f2 + 1, "-") \/ HasAt(s, f2 + 1, "+")
                   THEN f2 + 2 ELSE f2 + 1)
    ELSE 0

StofDigits(s, neg, i1, i2, f1, f2) ==
    IF (i2 - i1) + (f2 - f1) = 0 THEN StofInvalid
    ELSE StofScale(s, neg, i1, i2, f1, f2, Exponent(s, f2))

StofFraction(s, neg, i1, i2) ==
    IF HasAt(s, i2, ".")
    THEN StofDigits(s, neg, i1, i2, i2 + 1, DigitsEnd(s, i2 + 1))
    ELSE StofDigits(s, neg, i1, i2, i2, i2)

StofNumber(s, neg, i1) ==
    IF IsNanAt(s, i1) THEN StofOk(NaN)
    ELSE StofFraction(s, neg, i1, DigitsEnd(s, i1))

StofSign(s, i0) ==
    StofNumber(s, HasAt(s, i0, "-"),
               IF HasAt(s, i0, "-") \/ HasAt(s, i0, "+") THEN i0 + 1 ELSE i0)

Stof(s) == StofSign(s, SkipSpaces(s, 1))

\* ------------------------------------------------------------ parameters

WARN_AFTER_ERROR_COUNT == 10
SENSOR_SCALE_FACTOR == 1000

\* consecutive failures a channel is driven through
MaxErr == 11
\* bytes a failed read may leave behind in read_buf
MaxLeftover == 4

Sensors == {1, 2}

NL == "\n"

\* what one asynchronous read can bring: the bytes appended to read_buf and
\* the error code async_read_until completes with
Chunk(t, e) == [data |-> t, ec |-> e]
DeviceData ==
    { Chunk(<<"8", "0", "0", "0", NL>>, "success"),
      Chunk(<<"8", "2", "0", "0", NL>>, "success"),
      Chunk(<<"1", "0", "0", "0", "0", NL>>, "success"),
      Chunk(<<"x", NL>>, "success"),
      Chunk(<<"1", "e", "3", "9", NL>>, "success"),
      Chunk(<<"8", "0", "0", "0">>, "eof"),
      Chunk(<<>>, "io_error") }

\* a device file that always holds a well-formed reading
SteadyData ==
    { Chunk(<<"8", "0", "0", "0", NL>>, "success"),
      Chunk(<<"1", "0", "0", "0", "0", NL>>, "success") }

\* a device that can also read 0
ZeroData ==
    { Chunk(<<"0", NL>>, "success"),
      Chunk(<<"8", "0", "0", "0", NL>>, "success"),
      Chunk(<<>>, "io_error") }

\* trip values an external write can set
TripValues == {Num(4), Norm(9, 2)}

Threshold(l, d, v) == [level |-> l, direction |-> d, value |-> v]

VARIABLES
    constructed,   \* the sensors that exist (constructor has run)
    device,        \* device[c]: what the file at path can deliver to a read
    thresholds,    \* thresholds[c]: sequence of Threshold
    scale_factor,  \* scale_factor[c]
    value,         \* value[c]: last published value, NaN at first
    err_count,     \* err_count[c]
    input_dev,     \* "open" or "closed": the stream descriptor
    read_buf,      \* read_buf[c]: bytes in the streambuf
    reads,         \* number of async_read_until operations waiting for data
    timers,        \* number of async_wait operations waiting for expiry
    ready,         \* ready[c]: completion handlers queued in the io_service
    destroyed,     \* destroyed[c]: the destructor has run
    crashed,       \* the process has ended
    trip_property, \* trip_property[c][i]: the trip value shown on the bus
    alarm,         \* alarm[c][n]: the alarm property n shown on the bus
    evaluated,     \* evaluated[c]: <<value, trip values>> check_thresholds last
                   \* ran on, <<>> before it has run
    out,           \* what the last step published: sequence of events
    op             \* the last step: which operation, on what, from where

vars == <<constructed, device, thresholds, scale_factor, value, err_count, input_dev,
          read_buf, reads, timers, ready, destroyed, crashed,
          trip_property, alarm, evaluated, out, op>>

\* ------------------------------------------------------------- publishing

ValueEv(v, src) == [kind |-> "Value", name |-> "Value", v |-> v, b |-> FALSE, src |-> src]
AlarmEv(n, b, v) == [kind |-> "Alarm", name |-> n, v |-> v, b |-> b, src |-> "threshold"]
PersistEv(n, v) == [kind |-> "Persist", name |-> n, v |-> v, b |-> FALSE, src |-> "write"]

HasWarningInterface(ths) == \E i \in 1..Len(ths) : ths[i].level = "WARNING"
HasCriticalInterface(ths) == \E i \in 1..Len(ths) : ths[i].level = "CRITICAL"

\* the property assert_thresholds sets, "" when it sets none
AlarmProperty(ths, level, direction) ==
    CASE level = "WARNING" /\ direction = "HIGH" /\ HasWarningInterface(ths)
           -> "WarningAlarmHigh"
      [] level = "WARNING" /\ direction = "LOW" /\ HasWarningInterface(ths)
           -> "WarningAlarmLow"
      [] level = "CRITICAL" /\ direction = "HIGH" /\ HasCriticalInterface(ths)
           -> "CriticalAlarmHigh"
      [] level = "CRITICAL" /\ direction = "LOW" /\ HasCriticalInterface(ths)
           -> "CriticalAlarmLow"
      [] OTHER -> ""

\* faulty variant: the comparisons are not strict
Tripped_OrEqual(t, v) ==
    IF t.direction = "HIGH" THEN ~FLt(v, t.value) /\ ~IsNaN(v)
    ELSE ~FGt(v, t.value) /\ ~IsNaN(v)

\* the comparison of check_thresholds for one threshold
Tripped(t, v) ==
    IF t.direction = "HIGH" THEN FGt(v, t.value) ELSE FLt(v, t.value)

\* faulty variant: only the tripped thresholds are published
check_thresholds_TrippedOnly(ths, v) ==
    LET Published(e) == e.name # "" /\ e.b
    IN  SelectSeq([i \in 1..Len(ths) |->
                      AlarmEv(AlarmProperty(ths, ths[i].level, ths[i].direction),
                              Tripped(ths[i], v), v)], Published)

\* check_thresholds: the alarm publishes, in the order of the thresholds
check_thresholds(ths, v) ==
    LET Published(e) == e.name # ""
    IN  SelectSeq([i \in 1..Len(ths) |->
                      AlarmEv(AlarmProperty(ths, ths[i].level, ths[i].direction),
                              Tripped(ths[i], v), v)], Published)

\* faulty variant: the thresholds are evaluated before the new value is stored
update_value_Stale(c, new_value, src) ==
    <<ValueEv(new_value, src)>> \o check_thresholds(thresholds[c], value[c])

\* faulty variant: an alarm is published only when its boolean changes
update_value_EdgeOnly(c, new_value, src) ==
    LET Changed(e) == e.b # alarm[c][e.name]
    IN  <<ValueEv(new_value, src)>>
        \o SelectSeq(check_thresholds(thresholds[c], new_value), Changed)

\* update_value: publish the value, store it, evaluate the thresholds
update_value(c, new_value, src) ==
    <<ValueEv(new_value, src)>> \o check_thresholds(thresholds[c], new_value)

\* the value member after the events evs
RECURSIVE ValueAfter(_, _)
ValueAfter(v, evs) ==
    IF evs = <<>> THEN v
    ELSE ValueAfter(IF Head(evs).kind = "Value" THEN Head(evs).v ELSE v, Tail(evs))

\* the alarm properties after the events evs
RECURSIVE AlarmAfter(_, _)
AlarmAfter(a, evs) ==
    IF evs = <<>> THEN a
    ELSE AlarmAfter(IF Head(evs).kind = "Alarm"
                    THEN [a EXCEPT ![Head(evs).name] = Head(evs).b] ELSE a,
                    Tail(evs))

\* what check_thresholds last ran on, after the events evs
EvaluatedAfter(e, v, ths, evs) ==
    IF \E i \in 1..Len(evs) : evs[i].kind = "Value"
    THEN <<ValueAfter(v, evs), [i \in 1..Len(ths) |-> ths[i].value]>>
    ELSE e

\* ------------------------------------------------------------ construction

\* the alarm properties set_initial_properties registers, each with false
RegisteredAlarms(ths) ==
    {AlarmProperty(ths, ths[i].level, ths[i].direction) : i \in 1..Len(ths)} \ {""}

\* the configuration each sensor is built from
ConfigScale(c) == IF c = 1 THEN Num(2) ELSE Num(1)

ConfigThresholds(c) ==
    IF c = 1 THEN <<Threshold("CRITICAL", "HIGH", Norm(9, 2)),
                    Threshold("WARNING", "LOW", Num(4))>>
    ELSE <<>>

Completion(o, e) == [op |-> o, ec |-> e]

OpRec(n, c, e, f) ==
    [name |-> n, c |-> c, ec |-> e, fate |-> f, line |-> <<>>,
     parse |-> "none", reopen |-> "none", err0 |-> 0, value0 |-> NaN,
     alarm0 |-> <<>>, evaluated0 |-> <<>>, stages |-> <<>>]

\* the state the constructor leaves: sensors cs built, first read started
Constructed(cs, data) ==
    /\ constructed = cs
    /\ device = [c \in Sensors |-> data]
    /\ thresholds = [c \in Sensors |-> ConfigThresholds(c)]
    /\ trip_property = [c \in Sensors |->
            [i \in 1..Len(ConfigThresholds(c)) |-> ConfigThresholds(c)[i].value]]
    /\ alarm = [c \in Sensors |->
            [n \in RegisteredAlarms(ConfigThresholds(c)) |-> FALSE]]
    /\ evaluated = [c \in Sensors |-> <<>>]
    /\ scale_factor = [c \in Sensors |-> ConfigScale(c)]
    /\ value = [c \in Sensors |-> NaN]
    /\ err_count = [c \in Sensors |-> 0]
    /\ input_dev = [c \in Sensors |-> IF c \in cs THEN "open" ELSE "closed"]
    /\ read_buf = [c \in Sensors |-> <<>>]
    /\ reads = [c \in Sensors |-> IF c \in cs THEN 1 ELSE 0]
    /\ timers = [c \in Sensors |-> 0]
    /\ ready = [c \in Sensors |-> <<>>]
    /\ destroyed = [c \in Sensors |-> FALSE]
    /\ crashed = FALSE
    /\ out = <<>>
    /\ op = OpRec("constructor", 0, "none", "run")

Init == Constructed({1}, DeviceData)
InitTwo == Constructed(Sensors, SteadyData)
InitZero == Constructed({1}, ZeroData)

\* ------------------------------------------------------- asio operations

RECURSIVE Aborted(_, _)
Aborted(o, n) ==
    IF n = 0 THEN <<>> ELSE <<Completion(o, "operation_aborted")>> \o Aborted(o, n - 1)

RECURSIVE FirstNL(_, _)
FirstNL(buf, i) ==
    IF i > Len(buf) THEN 0 ELSE IF buf[i] = NL THEN i ELSE FirstNL(buf, i + 1)

\* async_read_until(input_dev, read_buf, '\n'): <<reads, ready>> afterwards.
\* A delimiter already buffered completes at once; a closed descriptor
\* completes at once with bad_file_descriptor; else the read waits for data.
setup_read(dev, buf, rd, rdy) ==
    IF FirstNL(buf, 1) # 0 THEN <<rd, Append(rdy, Completion("read", "success"))>>
    ELSE IF dev = "closed"
         THEN <<rd, Append(rdy, Completion("read", "bad_file_descriptor"))>>
         ELSE <<rd + 1, rdy>>

\* the device delivers: a waiting read completes with the chunk d
ReadDone(c) ==
    /\ ~crashed /\ c \in constructed
    /\ reads[c] > 0
    /\ \E d \in device[c] :
         /\ d.ec # "success" => Len(read_buf[c]) + Len(d.data) <= MaxLeftover
         /\ read_buf' = [read_buf EXCEPT ![c] = @ \o d.data]
         /\ reads' = [reads EXCEPT ![c] = @ - 1]
         /\ ready' = [ready EXCEPT ![c] = Append(@, Completion("read", d.ec))]
         /\ op' = OpRec("read_done", c, d.ec, "run")
    /\ out' = <<>>
    /\ UNCHANGED <<constructed, device, thresholds, scale_factor, value, err_count,
                   input_dev, timers, destroyed, crashed, trip_property, alarm,
                   evaluated>>

\* the deadline passes: a waiting timer completes
TimerExpire(c) ==
    /\ ~crashed /\ c \in constructed
    /\ timers[c] > 0
    /\ timers' = [timers EXCEPT ![c] = @ - 1]
    /\ ready' = [ready EXCEPT ![c] = Append(@, Completion("timer", "success"))]
    /\ op' = OpRec("timer_expire", c, "success", "run")
    /\ out' = <<>>
    /\ UNCHANGED <<constructed, device, thresholds, scale_factor, value, err_count,
                   input_dev, read_buf, reads, destroyed, crashed,
                   trip_property, alarm, evaluated>>

\* ------------------------------------------------------- handle_response

\* faulty variant: the check for the closed descriptor is missing
IsTeardown_Never(ec) == FALSE

\* `err == boost::system::errc::bad_file_descriptor`: "we're being destroyed"
IsTeardown(ec) == ec = "bad_file_descriptor"

\* `ec == boost::asio::error::operation_aborted`: "we're being canceled"
IsCanceled(ec) == ec = "operation_aborted"

\* nvalue = (nvalue / SENSOR_SCALE_FACTOR) / scale_factor, nvalue a float
Transform(f, sf) == RoundF(QDiv(RoundF(QDiv(f, Num(SENSOR_SCALE_FACTOR))), sf))

\* faulty variant: every converted sample counts as a change
ChangeDetected_Always(nvalue, v) == TRUE

\* `nvalue != value`
ChangeDetected(nvalue, v) == FNe(nvalue, v)

\* faulty variant: `err_count >= WARN_AFTER_ERROR_COUNT`
SentinelDue_AtLeast(n) == n >= WARN_AFTER_ERROR_COUNT

\* `err_count == WARN_AFTER_ERROR_COUNT`
SentinelDue(n) == n = WARN_AFTER_ERROR_COUNT

\* std::getline on the stream of read_buf: <<line, what stays buffered>>
LineAt(buf, nl) ==
    IF nl = 0 THEN <<buf, <<>>>>
    ELSE <<SubSeq(buf, 1, nl - 1), SubSeq(buf, nl + 1, Len(buf))>>

GetLine(buf) == LineAt(buf, FirstNL(buf, 1))

\* what the handler has done when it reaches the reopen step, or when
\* std::stof throws past the catch clause
Done(thrown, evs, err, buf, line, parse) ==
    [thrown |-> thrown, evs |-> evs, err |-> err, buf |-> buf, line |-> line,
     parse |-> parse]

\* faulty variant: the forced 0 is published only if the value is not 0
Sentinel_Suppressed(c, err) ==
    IF SentinelDue(err) /\ ChangeDetected(Num(0), value[c])
    THEN update_value(c, Num(0), "sentinel")
    ELSE <<>>

\* `if (err_count == WARN_AFTER_ERROR_COUNT) update_value(0)`
Sentinel(c, err) ==
    IF SentinelDue(err) THEN update_value(c, Num(0), "sentinel")
    ELSE <<>>

\* faulty variant: a sample equal to the value re-runs the evaluation
Sample_Reevaluates(c, nvalue) ==
    IF ChangeDetected(nvalue, value[c])
    THEN update_value(c, nvalue, "sample")
    ELSE check_thresholds(thresholds[c], value[c])

\* the try block with the converted sample nvalue
Sample(c, nvalue) ==
    IF ChangeDetected(nvalue, value[c])
    THEN update_value(c, nvalue, "sample") ELSE <<>>

\* faulty variant: a converted sample leaves err_count as it was
Parsed_KeepCount(c, gl, st) ==
    IF st.kind = "ok"
    THEN Done(FALSE, Sample(c, Transform(st.val, scale_factor[c])), err_count[c],
              gl[2], gl[1], st.kind)
    ELSE IF st.kind = "invalid_argument"
    THEN Done(FALSE, Sentinel(c, err_count[c] + 1), err_count[c] + 1,
              gl[2], gl[1], st.kind)
    ELSE Done(TRUE, <<>>, err_count[c], gl[2], gl[1], st.kind)

\* `if (!err)` branch: the line gl[1] is taken from the buffer and converted
Parsed(c, gl, st) ==
    IF st.kind = "ok"
    THEN Done(FALSE, Sample(c, Transform(st.val, scale_factor[c])) \o Sentinel(c, 0),
              0, gl[2], gl[1], st.kind)
    ELSE IF st.kind = "invalid_argument"
    THEN Done(FALSE, Sentinel(c, err_count[c] + 1), err_count[c] + 1,
              gl[2], gl[1], st.kind)
    ELSE Done(TRUE, <<>>, err_count[c], gl[2], gl[1], st.kind)

GotLine(c, gl) == Parsed(c, gl, Stof(gl[1]))

\* lines 95-132 for the completion code ec
Cycle(c, ec) ==
    IF ec = "success" THEN GotLine(c, GetLine(read_buf[c]))
    ELSE Done(FALSE, Sentinel(c, err_count[c] + 1), err_count[c] + 1,
              read_buf[c], <<>>, "none")

\* faulty variant: the timer is armed and the next read started at once
Reschedule_AlsoReads(c, rdy, reopen) ==
    IF reopen = "fail"
    THEN <<"closed", 0, timers[c], rdy \o Aborted("read", reads[c])>>
    ELSE <<"open", 1, 1,
           (rdy \o Aborted("read", reads[c])) \o Aborted("timer", timers[c])>>

\* faulty variant: the timer is armed although the reopen failed
Reschedule_ArmOnFailure(c, rdy, reopen) ==
    IF reopen = "fail"
    THEN <<"closed", 0, 1,
           (rdy \o Aborted("read", reads[c])) \o Aborted("timer", timers[c])>>
    ELSE <<"open", 0, 1,
           (rdy \o Aborted("read", reads[c])) \o Aborted("timer", timers[c])>>

\* lines 134-150: close, reopen, arm the timer.  <<input_dev, reads, timers,
\* ready>> afterwards; close() and expires_from_now() cancel what waits
Reschedule(c, rdy, reopen) ==
    IF reopen = "fail"
    THEN <<"closed", 0, timers[c], rdy \o Aborted("read", reads[c])>>
    ELSE <<"open", 0, 1,
           (rdy \o Aborted("read", reads[c])) \o Aborted("timer", timers[c])>>

\* faulty variant: the timer is armed before the publishes and the reopen
Stages_ArmFirst(cy, reopen) ==
    IF cy.thrown THEN <<"getline", "stof">>
    ELSE (IF reopen = "fail" THEN <<>> ELSE <<"async_wait">>)
         \o [i \in 1..Len(cy.evs) |-> "set_property"]
         \o <<"close", "open">>
         \o (IF reopen = "fail" THEN <<>> ELSE <<"assign">>)

\* the calls of one run of the handler body, in the order of lines 95-150
Stages(cy, reopen) ==
    IF cy.thrown THEN <<"getline", "stof">>
    ELSE (IF cy.line = <<>> /\ cy.parse = "none" THEN <<>> ELSE <<"getline", "stof">>)
         \o [i \in 1..Len(cy.evs) |-> "set_property"]
         \o <<"close", "open">>
         \o (IF reopen = "fail" THEN <<>> ELSE <<"assign", "async_wait">>)

\* the handler body past the teardown check, on a live object or on the
\* memory of a destroyed one
Respond(c, rest, cy, rec, exc, reopen) ==
    /\ cy.err <= MaxErr
    /\ out' = cy.evs
    /\ value' = [value EXCEPT ![c] = ValueAfter(@, cy.evs)]
    /\ alarm' = [alarm EXCEPT ![c] = AlarmAfter(@, cy.evs)]
    /\ evaluated' = [evaluated EXCEPT ![c] =
                        EvaluatedAfter(@, value[c], thresholds[c], cy.evs)]
    /\ err_count' = [err_count EXCEPT ![c] = cy.err]
    /\ read_buf' = [read_buf EXCEPT ![c] = cy.buf]
    /\ op' = [rec EXCEPT !.line = cy.line, !.parse = cy.parse,
                         !.reopen = reopen, !.fate = exc, !.err0 = err_count[c],
                         !.value0 = value[c], !.alarm0 = alarm[c],
                         !.evaluated0 = evaluated[c],
                         !.stages = Stages(cy, reopen)]
    /\ IF cy.thrown
       THEN /\ crashed' = (exc = "terminate")
            /\ ready' = [ready EXCEPT ![c] = rest]
            /\ UNCHANGED <<input_dev, reads, timers>>
       ELSE /\ input_dev' = [input_dev EXCEPT ![c] = Reschedule(c, rest, reopen)[1]]
            /\ reads' = [reads EXCEPT ![c] = Reschedule(c, rest, reopen)[2]]
            /\ timers' = [timers EXCEPT ![c] = Reschedule(c, rest, reopen)[3]]
            /\ ready' = [ready EXCEPT ![c] = Reschedule(c, rest, reopen)[4]]
            /\ UNCHANGED crashed

\* a handler that dereferences a destroyed object: the process may die there
Crash(c, rest, rec) ==
    /\ crashed' = TRUE
    /\ ready' = [ready EXCEPT ![c] = rest]
    /\ out' = <<>>
    /\ op' = [rec EXCEPT !.fate = "crash"]
    /\ UNCHANGED <<value, err_count, input_dev, read_buf, reads, timers, alarm,
                   evaluated>>

Handle(c, ec, rest, cy, rec) ==
    IF IsTeardown(ec)
    THEN /\ ready' = [ready EXCEPT ![c] = rest]
         /\ out' = <<>>
         /\ op' = [rec EXCEPT !.fate = "returned"]
         /\ UNCHANGED <<value, err_count, input_dev, read_buf, reads, timers,
                        crashed, alarm, evaluated>>
    ELSE \E fate \in (IF destroyed[c] THEN {"run", "crash"} ELSE {"run"}),
            exc \in (IF cy.thrown THEN {"caught", "terminate"} ELSE {"none"}),
            reopen \in (IF cy.thrown THEN {"none"} ELSE {"ok", "fail"}) :
           IF fate = "crash" THEN Crash(c, rest, rec)
           ELSE Respond(c, rest, cy, rec, exc, reopen)

\* the completion handler of async_read_until runs
HandleResponse(c) ==
    /\ ~crashed /\ c \in constructed
    /\ ready[c] # <<>> /\ Head(ready[c]).op = "read"
    /\ Handle(c, Head(ready[c]).ec, Tail(ready[c]),
              Cycle(c, Head(ready[c]).ec),
              OpRec("handle_response", c, Head(ready[c]).ec, "run"))
    /\ UNCHANGED <<constructed, device, thresholds, scale_factor, destroyed,
                   trip_property>>

Expired(c, ec, rest, sr) ==
    IF IsCanceled(ec)
    THEN /\ ready' = [ready EXCEPT ![c] = rest]
         /\ op' = OpRec("timer_handler", c, ec, "returned")
         /\ UNCHANGED <<reads, crashed>>
    ELSE \E fate \in (IF destroyed[c] THEN {"run", "crash"} ELSE {"run"}) :
           IF fate = "crash"
           THEN /\ crashed' = TRUE
                /\ ready' = [ready EXCEPT ![c] = rest]
                /\ op' = OpRec("timer_handler", c, ec, "crash")
                /\ UNCHANGED reads
           ELSE /\ reads' = [reads EXCEPT ![c] = sr[1]]
                /\ ready' = [ready EXCEPT ![c] = sr[2]]
                /\ op' = OpRec("timer_handler", c, ec, "run")
                /\ UNCHANGED crashed

\* the completion handler of wait_timer.async_wait runs
TimerHandler(c) ==
    /\ ~crashed /\ c \in constructed
    /\ ready[c] # <<>> /\ Head(ready[c]).op = "timer"
    /\ Expired(c, Head(ready[c]).ec, Tail(ready[c]),
               setup_read(input_dev[c], read_buf[c], reads[c], Tail(ready[c])))
    /\ out' = <<>>
    /\ UNCHANGED <<constructed, device, thresholds, scale_factor, value, err_count,
                   input_dev, read_buf, timers, destroyed, trip_property,
                   alarm, evaluated>>

\* ------------------------------------------------------------ destructor

\* input_dev.close() and wait_timer.cancel(): the operations still waiting
\* complete with operation_aborted; handlers already queued keep their code
Destroy(c) ==
    /\ ~crashed /\ c \in constructed /\ ~destroyed[c]
    /\ input_dev' = [input_dev EXCEPT ![c] = "closed"]
    /\ ready' = [ready EXCEPT ![c] =
                    (@ \o Aborted("read", reads[c])) \o Aborted("timer", timers[c])]
    /\ reads' = [reads EXCEPT ![c] = 0]
    /\ timers' = [timers EXCEPT ![c] = 0]
    /\ destroyed' = [destroyed EXCEPT ![c] = TRUE]
    /\ out' = <<>>
    /\ op' = OpRec("destructor", c, "none", "run")
    /\ UNCHANGED <<constructed, device, thresholds, scale_factor, value, err_count,
                   read_buf, crashed, trip_property, alarm, evaluated>>

\* ------------------------------------------------- threshold write (D-Bus)

\* faulty variant: the setter does not store the request in the threshold
StoreTrip_Dropped(ths, i, request) == ths

\* `threshold.value = request`
StoreTrip(ths, i, request) == [ths EXCEPT ![i].value = request]

\* the setter registered for threshold i is called with request
SetThreshold(c, i, request) ==
    /\ ~crashed /\ c \in constructed /\ ~destroyed[c]
    /\ i \in 1..Len(thresholds[c])
    /\ AlarmProperty(thresholds[c], thresholds[c][i].level,
                     thresholds[c][i].direction) # ""
    /\ trip_property' = [trip_property EXCEPT ![c][i] = request]
    /\ thresholds' = [thresholds EXCEPT ![c] = StoreTrip(@, i, request)]
    /\ out' = <<PersistEv(AlarmProperty(thresholds[c], thresholds[c][i].level,
                                        thresholds[c][i].direction), request)>>
    /\ op' = OpRec("set_threshold", c, "none", "run")
    /\ UNCHANGED <<constructed, device, scale_factor, value, err_count, input_dev,
                   read_buf, reads, timers, ready, destroyed, crashed, alarm,
                   evaluated>>

\* ------------------------------------------------------------------ system

\* the state after the constructors when open() of sensor 1 returned -1.
\* stream_descriptor(io, -1) is the library's: it throws from assign (thrown:
\* sensor 1 is not built, and the exception ends the process unless the
\* caller catches it), or it leaves a descriptor that is not open, on which
\* the first read completes at once with bad_file_descriptor
ConstructedOpenFailed(thrown, uncaught, data) ==
    /\ constructed = (IF thrown THEN {2} ELSE Sensors)
    /\ device = [c \in Sensors |-> data]
    /\ thresholds = [c \in Sensors |-> ConfigThresholds(c)]
    /\ trip_property = [c \in Sensors |->
            [i \in 1..Len(ConfigThresholds(c)) |-> ConfigThresholds(c)[i].value]]
    /\ alarm = [c \in Sensors |->
            [n \in RegisteredAlarms(ConfigThresholds(c)) |-> FALSE]]
    /\ evaluated = [c \in Sensors |-> <<>>]
    /\ scale_factor = [c \in Sensors |-> ConfigScale(c)]
    /\ value = [c \in Sensors |-> NaN]
    /\ err_count = [c \in Sensors |-> 0]
    /\ input_dev = [c \in Sensors |-> IF c = 2 THEN "open" ELSE "closed"]
    /\ read_buf = [c \in Sensors |-> <<>>]
    /\ reads = [c \in Sensors |-> IF c = 2 THEN 1 ELSE 0]
    /\ timers = [c \in Sensors |-> 0]
    /\ ready = [c \in Sensors |->
                  IF c = 1 /\ ~thrown THEN setup_read("closed", <<>>, 0, <<>>)[2]
                  ELSE <<>>]
    /\ destroyed = [c \in Sensors |-> FALSE]
    /\ crashed = (thrown /\ uncaught)
    /\ out = <<>>
    /\ op = OpRec("constructor", 1, "none", IF thrown THEN "throw" ELSE "run")

InitOpenFailed ==
    \E thrown \in BOOLEAN, uncaught \in BOOLEAN :
        /\ uncaught => thrown
        /\ ConstructedOpenFailed(thrown, uncaught, SteadyData)

Next ==
    \E c \in Sensors :
        \/ ReadDone(c)
        \/ HandleResponse(c)
        \/ TimerExpire(c)
        \/ TimerHandler(c)
        \/ Destroy(c)
        \/ \E i \in 1..2, request \in TripValues : SetThreshold(c, i, request)

Spec == Init /\ [][Next]_vars
SpecTwo == InitTwo /\ [][Next]_vars
SpecZero == InitZero /\ [][Next]_vars
SpecOpenFailed == InitOpenFailed /\ [][Next]_vars

\* -------------------------------------------------------------- properties

\* the last step was the body of handle_response, past the teardown check
HandlerRan ==
    op.name = "handle_response" /\ op.fate \notin {"returned", "crash"}

\* the last cycle failed: a read error, or text that is no number
CycleFailed == op.ec # "success" \/ op.parse = "invalid_argument"

ValueEvents(src) ==
    {i \in 1..Len(out) : out[i].kind = "Value" /\ out[i].src = src}
AlarmEvents == {i \in 1..Len(out) : out[i].kind = "Alarm"}

\* C1: the forced publish of 0 happens exactly in the failed cycle that takes
\* the consecutive-error count from 9 to 10, once, and in no other step; a
\* failed cycle adds exactly one to the count, and only a successful cycle
\* takes it back to 0.
C1_SentinelExactlyAtTenth ==
    /\ ~HandlerRan => ValueEvents("sentinel") = {} /\ ValueEvents("sample") = {}
    /\ HandlerRan =>
         /\ CycleFailed => err_count[op.c] = op.err0 + 1
         /\ ~CycleFailed => err_count[op.c] \in {0, op.err0}
         /\ err_count[op.c] = 0 /\ op.err0 > 0 => op.ec = "success" /\ op.parse = "ok"
         /\ ValueEvents("sentinel") # {} <=> (CycleFailed /\ err_count[op.c] = 10)
         /\ Cardinality(ValueEvents("sentinel")) <= 1
         /\ \A i \in ValueEvents("sentinel") : out[i].v = Num(0)
         /\ CycleFailed => ValueEvents("sample") = {}

\* C1 witness: the tenth consecutive failure has just published 0
C1_Witness ==
    /\ HandlerRan /\ CycleFailed /\ ~destroyed[op.c]
    /\ op.err0 = 9 /\ err_count[op.c] = 10
    /\ ValueEvents("sentinel") # {}

\* C1 witness of the silent later failures: the eleventh publishes nothing
C1_WitnessEleventh ==
    HandlerRan /\ CycleFailed /\ op.err0 = 10 /\ err_count[op.c] = 11 /\ out = <<>>

\* C2 (as the specification states it): every completion handler of a
\* destroyed channel that runs after the destructor takes the closed-handle or
\* cancelled-timer return, publishes nothing and leaves the process alive.
C2_NoContinuationAfterTeardown ==
    op.name \in {"handle_response", "timer_handler"} /\ destroyed[op.c] =>
        op.fate = "returned" /\ out = <<>> /\ ~crashed

\* C2 witness: the read that the destructor's close() aborted completes with
\* operation_aborted; its handler passes the check for bad_file_descriptor
\* and counts a failure on the destroyed object
C2_Witness ==
    /\ op.name = "handle_response" /\ destroyed[op.c]
    /\ op.ec = "operation_aborted" /\ op.fate = "none"
    /\ err_count[op.c] = op.err0 + 1

\* the thresholds of the channel of the last step that carry the alarm name n
ThresholdsNamed(n) ==
    {j \in 1..Len(thresholds[op.c]) :
        AlarmProperty(thresholds[op.c], thresholds[op.c][j].level,
                      thresholds[op.c][j].direction) = n}

\* v > T and v < T on fractions with positive denominators
Above(v, T) == v[1] * T[2] > T[1] * v[2]
Below(v, T) == v[1] * T[2] < T[1] * v[2]

\* C3: every published alarm boolean is the strict comparison of the evaluated
\* value v with the trip value T of its threshold: High is true iff v > T, Low
\* is true iff v < T, and v = T publishes false in both directions.
C3_StrictComparison ==
    \A i \in AlarmEvents :
        /\ op.c \in Sensors /\ ThresholdsNamed(out[i].name) # {}
        /\ \A j \in ThresholdsNamed(out[i].name) :
             LET t == thresholds[op.c][j]
             IN  /\ t.direction = "HIGH" => (out[i].b <=> Above(out[i].v, t.value))
                 /\ t.direction = "LOW" => (out[i].b <=> Below(out[i].v, t.value))
                 /\ out[i].v = t.value => ~out[i].b

\* C3 witness: one evaluation of a value equal to the trip value of a High
\* and of a Low threshold, both published false
C3_Witness ==
    /\ \E i \in AlarmEvents : \E j \in ThresholdsNamed(out[i].name) :
         /\ thresholds[op.c][j].direction = "HIGH"
         /\ out[i].v = thresholds[op.c][j].value /\ ~out[i].b
    /\ \E i \in AlarmEvents : \E j \in ThresholdsNamed(out[i].name) :
         /\ thresholds[op.c][j].direction = "LOW"
         /\ out[i].v = thresholds[op.c][j].value /\ ~out[i].b

\* C3 witness of the asserting side: a High alarm or a Low alarm published true
C3_WitnessTripped ==
    \/ \E i \in AlarmEvents : \E j \in ThresholdsNamed(out[i].name) :
         thresholds[op.c][j].direction = "HIGH" /\ out[i].b
    \/ \E i \in AlarmEvents : \E j \in ThresholdsNamed(out[i].name) :
         thresholds[op.c][j].direction = "LOW" /\ out[i].b

\* the last cycle read a line and converted it to a number
CycleParsed == HandlerRan /\ op.ec = "success" /\ op.parse = "ok"

\* the line of the last cycle is a nonempty run of decimal digits
LineIsDigits == op.line # <<>> /\ DigitsEnd(op.line, 1) = Len(op.line) + 1

\* the quotient (x / 1000) / scale_factor of the line of the last cycle
ExactQuotient ==
    QDiv(QDiv(Num(DigitsVal(op.line, 1, Len(op.line) + 1, 0)), Num(1000)),
         scale_factor[op.c])

\* v agrees with the quotient q to double precision: equal, or a relative
\* distance |v - q| / |q| of at most 2^-51
DoubleClose(v, q) ==
    LET diff == Abs(v[1] * q[2] - q[1] * v[2])
        mag == Abs(q[1]) * v[2]
    IN  ~IsNaN(v) /\ (diff = 0 \/ (mag \div diff) \div (2 ^ 25) >= 2 ^ 26)

\* C4 (as the specification states it): a value published from a converted
\* sample x, and stored as the current value, is (x / 1000) / scale_factor.
C4_PublishedIsQuotient ==
    CycleParsed /\ LineIsDigits =>
        \A i \in ValueEvents("sample") :
            DoubleClose(out[i].v, ExactQuotient) /\ value[op.c] = out[i].v

\* C4 witness: the line "8200" with scale_factor 2 publishes the nearest
\* single-precision number to 4.1, not 4.1
C4_Witness ==
    /\ CycleParsed /\ op.line = <<"8", "2", "0", "0">>
    /\ ExactQuotient = Norm(41, 10)
    /\ \E i \in ValueEvents("sample") : out[i].v = Norm(8598323, 2097152)
    /\ value[op.c] = Norm(8598323, 2097152)

\* C5: after a cycle whose read completed without error and whose text was
\* converted, err_count is 0, whatever it was before and whether or not a
\* value was published.
C5_SuccessResetsCount ==
    CycleParsed => err_count[op.c] = 0

\* C5 witness: a converted sample after ten or more consecutive failures is
\* published and the count is back at 0
C5_Witness ==
    CycleParsed /\ op.err0 >= 10 /\ err_count[op.c] = 0 /\ ValueEvents("sample") # {}

\* C5 witness without a publish: a sample equal to the current value after a
\* failure
C5_WitnessUnpublished ==
    CycleParsed /\ op.err0 > 0 /\ err_count[op.c] = 0 /\ out = <<>>

\* the strict comparison of v with trip value T in direction d
Strict(d, v, T) == IF d = "HIGH" THEN Above(v, T) ELSE Below(v, T)

\* C6: a write of a trip value publishes no alarm and no value, and every
\* evaluation compares with the trip value last written (the one shown on the
\* bus), never with the one it replaced.
C6_TripWriteTakesEffectNext ==
    /\ op.name = "set_threshold" =>
         AlarmEvents = {} /\ \A i \in 1..Len(out) : out[i].kind = "Persist"
    /\ \A i \in AlarmEvents : \A j \in ThresholdsNamed(out[i].name) :
         out[i].b <=> Strict(thresholds[op.c][j].direction, out[i].v,
                             trip_property[op.c][j])

\* C6 witness: an evaluation after a write whose result differs from what the
\* replaced (configured) trip value would have given
C6_Witness ==
    \E i \in AlarmEvents : \E j \in ThresholdsNamed(out[i].name) :
        /\ trip_property[op.c][j] # ConfigThresholds(op.c)[j].value
        /\ out[i].b # Strict(thresholds[op.c][j].direction, out[i].v,
                             ConfigThresholds(op.c)[j].value)

\* C6 witness of the write itself
C6_WitnessWrite ==
    /\ op.name = "set_threshold" /\ out # <<>>
    /\ \E j \in 1..Len(thresholds[op.c]) :
         trip_property[op.c][j] # ConfigThresholds(op.c)[j].value

AllValueEvents == {i \in 1..Len(out) : out[i].kind = "Value"}

\* C7: each value publish is followed at once by one alarm publish per
\* threshold, in the order of the thresholds, carrying the comparison of that
\* same value; no alarm is published otherwise; afterwards the stored value is
\* the published one and every alarm on the bus is the comparison for it.
C7_EvaluatedOnPublishedValue ==
    /\ \A i \in AllValueEvents : \A j \in 1..Len(thresholds[op.c]) :
         /\ i + j <= Len(out) /\ out[i + j].kind = "Alarm"
         /\ j \in ThresholdsNamed(out[i + j].name)
         /\ out[i + j].v = out[i].v
         /\ out[i + j].b <=> Strict(thresholds[op.c][j].direction, out[i].v,
                                    thresholds[op.c][j].value)
    /\ \A i \in AlarmEvents :
         \E k \in AllValueEvents : i - k \in 1..Len(thresholds[op.c])
    /\ \A i \in AllValueEvents :
         (\A k \in AllValueEvents : k <= i) =>
            /\ value[op.c] = out[i].v
            /\ \A j \in 1..Len(thresholds[op.c]) :
                 \A n \in DOMAIN alarm[op.c] :
                    j \in ThresholdsNamed(n) =>
                       (alarm[op.c][n] <=>
                          Strict(thresholds[op.c][j].direction, value[op.c],
                                 thresholds[op.c][j].value))

\* C7 witness: Critical-High at 4.5, alarm asserted by 5.0, cleared by 4.0
C7_Witness ==
    /\ HandlerRan /\ op.value0 = Num(5)
    /\ "CriticalAlarmHigh" \in DOMAIN op.alarm0 /\ op.alarm0["CriticalAlarmHigh"]
    /\ \E j \in ThresholdsNamed("CriticalAlarmHigh") :
         thresholds[op.c][j].value = Norm(9, 2)
    /\ \E i \in AllValueEvents : out[i].v = Num(4)
    /\ ~alarm[op.c]["CriticalAlarmHigh"]

\* C7 witness with the sentinel: the forced 0 asserts the Low alarm
C7_WitnessSentinel ==
    /\ ValueEvents("sentinel") # {}
    /\ "WarningAlarmLow" \in DOMAIN alarm[op.c] /\ alarm[op.c]["WarningAlarmLow"]

\* the operations of kind o of channel c that are outstanding: started, and
\* their completion handler has not run yet
Outstanding(c, o) ==
    (IF o = "read" THEN reads[c] ELSE timers[c])
    + Cardinality({i \in 1..Len(ready[c]) : ready[c][i].op = o})

SingleFlight ==
    \A c \in Sensors :
        /\ Outstanding(c, "read") <= 1 /\ Outstanding(c, "timer") <= 1
        /\ Outstanding(c, "read") + Outstanding(c, "timer") <= 1

StartedInOrder ==
    \A c \in Sensors :
        /\ Outstanding(c, "read")' > Outstanding(c, "read") =>
             op'.name = "timer_handler" /\ op'.c = c /\ op'.ec = "success"
        /\ Outstanding(c, "timer")' > Outstanding(c, "timer") =>
             op'.name = "handle_response" /\ op'.c = c

\* C8: a channel has at most one read and at most one timer wait outstanding,
\* never both at once; after the read the constructor starts, a read is
\* started only by the handler of an expired timer and a timer is armed only
\* by the handler of a completed read.
C8_SingleFlight ==
    /\ []SingleFlight
    /\ [][StartedInOrder]_vars
    /\ (\A c \in Sensors :
          Outstanding(c, "read") = (IF c \in constructed THEN 1 ELSE 0)
          /\ Outstanding(c, "timer") = 0)

\* C8 witness: the handler of an expired timer has started the one read
C8_Witness ==
    /\ op.name = "timer_handler" /\ op.fate = "run" /\ ~destroyed[op.c]
    /\ reads[op.c] = 1 /\ Outstanding(op.c, "timer") = 0
    /\ ~IsNaN(value[op.c])

\* C8 witness: the handler of a completed read has armed the one timer
C8_WitnessTimer ==
    /\ HandlerRan /\ ~destroyed[op.c]
    /\ timers[op.c] = 1 /\ Outstanding(op.c, "read") = 0

\* the value the last cycle computed from its line
Computed == Transform(Stof(op.line).val, scale_factor[op.c])

\* C9: a cycle that converts a sample equal to the current value publishes
\* nothing and evaluates nothing; a sample is published only when it differs
\* from the current value, and then it is the computed value.
C9_ChangeSuppression ==
    CycleParsed =>
        /\ FEq(Computed, op.value0) =>
             out = <<>> /\ value[op.c] = op.value0 /\ alarm[op.c] = op.alarm0
        /\ \A i \in ValueEvents("sample") :
             FNe(Computed, op.value0) /\ out[i].v = Computed
        /\ FNe(Computed, op.value0) => ValueEvents("sample") # {}

\* C9 witness: a converted sample equal to the current value, nothing published
C9_Witness ==
    CycleParsed /\ ~IsNaN(op.value0) /\ Computed = op.value0 /\ out = <<>>

\* C9 witness of the other side: a differing sample replaces a published value
C9_WitnessChanged ==
    CycleParsed /\ ~IsNaN(op.value0) /\ Computed # op.value0
    /\ ValueEvents("sample") # {}

\* channel c has nothing outstanding and no descriptor
Inactive(c) ==
    /\ input_dev[c] = "closed" /\ reads[c] = 0 /\ timers[c] = 0 /\ ready[c] = <<>>

\* the last step was a cycle whose reopen failed
ReopenFailed == HandlerRan /\ op.reopen = "fail"

\* what belongs to channel c
ChannelState(c) ==
    <<value[c], err_count[c], input_dev[c], read_buf[c], reads[c], timers[c],
      ready[c], thresholds[c], trip_property[c], alarm[c], evaluated[c], destroyed[c],
      device[c], scale_factor[c]>>

StaysInactive ==
    \A c \in Sensors :
        Inactive(c) =>
            /\ Inactive(c)'
            /\ value'[c] = value[c] /\ alarm'[c] = alarm[c]
            /\ op'.c = c => \A i \in 1..Len(out') : out'[i].kind = "Persist"

SiblingsUntouched ==
    \A c \in Sensors : \A d \in Sensors \ {c} :
        op'.c = c => ChannelState(d)' = ChannelState(d)

\* C10: a cycle whose reopen fails leaves the channel with no descriptor, no
\* timer and no read, and the process alive; from then on the channel stays
\* so and publishes no value and no alarm; no step of one channel changes
\* anything of another channel.
C10_ReopenFailureIsolated ==
    /\ [](ReopenFailed => Inactive(op.c) /\ ~crashed)
    /\ [][StaysInactive /\ SiblingsUntouched]_vars

\* C10 witness: after the reopen of one channel failed, its sibling completes
\* a cycle and publishes
C10_Witness ==
    /\ HandlerRan /\ ValueEvents("sample") # {} /\ op.reopen = "ok"
    /\ \E c \in Sensors \ {op.c} :
         /\ Inactive(c) /\ ~destroyed[c] /\ ~IsNaN(value[c])
    /\ ~crashed /\ timers[op.c] = 1

\* C10 witness of the failing step
C10_WitnessFailed ==
    ReopenFailed /\ Inactive(op.c) /\ ~destroyed[op.c] /\ ~crashed

\* the last cycle read a line that std::stof did not convert
ConversionFailed ==
    /\ op.name = "handle_response" /\ op.fate \notin {"returned", "crash"}
    /\ op.ec = "success" /\ op.parse \in {"invalid_argument", "out_of_range"}

\* C11 (as the specification states it): a cycle whose read succeeded and
\* whose text was not converted, whatever the reason, adds exactly one to
\* err_count, publishes no sample, and goes on to the reopen and the timer;
\* the process lives on.
C11_ParseFailureCounted ==
    ConversionFailed =>
        /\ err_count[op.c] = op.err0 + 1
        /\ ValueEvents("sample") = {}
        /\ op.reopen \in {"ok", "fail"}
        /\ op.reopen = "ok" => timers[op.c] = 1
        /\ ~crashed

\* C11 witness: text out of the range of float leaves the handler by an
\* exception: the count is as before and neither reopen nor timer happened
C11_Witness ==
    /\ ConversionFailed /\ op.parse = "out_of_range" /\ ~destroyed[op.c]
    /\ op.line = <<"1", "e", "3", "9">>
    /\ err_count[op.c] = op.err0 /\ op.reopen = "none"
    /\ timers[op.c] = 0 /\ reads[op.c] = 0 /\ ready[op.c] = <<>>

\* C11 witness of the kind of failure the code does count: text that is no
\* number
C11_WitnessInvalid ==
    /\ ConversionFailed /\ op.parse = "invalid_argument" /\ ~destroyed[op.c]
    /\ err_count[op.c] = op.err0 + 1 /\ op.reopen = "ok" /\ timers[op.c] = 1

\* the trip values of channel c, in the order of its thresholds
Trips(c) == [j \in 1..Len(thresholds[c]) |-> thresholds[c][j].value]

\* the step re-runs the evaluation of channel c on the value and the trip
\* values the previous evaluation ran on
Reevaluates(c) ==
    /\ op'.name = "handle_response" /\ op'.c = c
    /\ \E i \in 1..Len(out') : out'[i].kind = "Value"
    /\ evaluated[c] # <<>>
    /\ FEq(value'[c], evaluated[c][1]) /\ Trips(c) = evaluated[c][2]

SameAlarms(c) ==
    /\ \A n \in DOMAIN alarm[c] :
         \E i \in 1..Len(out') :
            out'[i].kind = "Alarm" /\ out'[i].name = n /\ out'[i].b = alarm[c][n]
    /\ \A i \in 1..Len(out') :
         out'[i].kind = "Alarm" => out'[i].b = alarm[c][out'[i].name]
    /\ alarm'[c] = alarm[c]
    /\ value'[c] = value[c]
    /\ thresholds'[c] = thresholds[c] /\ trip_property'[c] = trip_property[c]
    /\ err_count'[c] = op'.err0 + 1

\* C12: an evaluation that runs again on the value and the trip values of
\* the previous one publishes for every threshold the boolean published
\* before, and leaves the value, the trip values and the alarms as they
\* were; the error count is the one the failed cycle had set before it.
C12_EvaluationIdempotent ==
    [][\A c \in Sensors : Reevaluates(c) => SameAlarms(c)]_vars

\* C12 witness: the forced 0 is published while the value is 0 already and no
\* trip value was written since the evaluation of that 0
C12_Witness ==
    /\ op.name = "handle_response" /\ op.fate = "none" /\ ~destroyed[op.c]
    /\ ValueEvents("sentinel") # {} /\ op.value0 = Num(0)
    /\ op.evaluated0 = <<Num(0), Trips(op.c)>>
    /\ alarm[op.c] = op.alarm0
    /\ \E n \in DOMAIN alarm[op.c] : alarm[op.c][n]

\* channel c is in its poll loop: built, not destroyed, descriptor open (no
\* reopen has failed)
Polling(c) == c \in constructed /\ ~destroyed[c] /\ input_dev[c] = "open"

\* C13 (as the specification states it): while the channel is not destroyed
\* and no reopen has failed the loop cannot stall: whatever a read completed
\* with, a sample, an error or text that is no number, the process is alive
\* and the channel has its next step outstanding, the timer armed by the
\* cycle or the read started at its expiry; a failed cycle has added one to
\* the error count.
C13_LoopNeverStalls ==
    /\ \A c \in Sensors :
         Polling(c) =>
            ~crashed /\ Outstanding(c, "read") + Outstanding(c, "timer") = 1
    /\ HandlerRan /\ Polling(op.c) /\ (op.ec # "success" \/ op.parse # "ok") =>
         err_count[op.c] = op.err0 + 1 /\ timers[op.c] = 1

\* C13 witness: after text out of the range of float the channel is alive
\* and open, and has no timer, no read and no handler left
C13_Witness ==
    /\ HandlerRan /\ op.c = 1 /\ op.parse = "out_of_range" /\ op.fate = "caught"
    /\ Polling(1) /\ ~crashed
    /\ timers[1] = 0 /\ reads[1] = 0 /\ ready[1] = <<>>

\* C13 witness of a cycle that goes on: a failed read has armed the timer
C13_WitnessRearmed ==
    /\ HandlerRan /\ op.c = 1 /\ op.ec = "io_error" /\ op.reopen = "ok"
    /\ Polling(1) /\ err_count[1] = op.err0 + 1 /\ timers[1] = 1

\* the positions of the call s in the run of the handler that just ended
StageAt(s) == {i \in 1..Len(op.stages) : op.stages[i] = s}

\* every call a comes before every call b
Before(a, b) == \A i \in StageAt(a) : \A j \in StageAt(b) : i < j

StageOrder ==
    HandlerRan =>
        /\ Cardinality(StageAt("set_property")) = Len(out)
        /\ Before("getline", "set_property") /\ Before("set_property", "close")
        /\ Before("close", "open") /\ Before("open", "assign")
        /\ Before("assign", "async_wait")
        /\ Cardinality(StageAt("close")) <= 1 /\ Cardinality(StageAt("open")) <= 1
        /\ Cardinality(StageAt("async_wait")) <= 1
        /\ StageAt("async_wait") # {} <=> timers[op.c] = 1

CyclesInOrder ==
    \A c \in Sensors :
        /\ op'.name = "timer_handler" /\ op'.c = c /\ op'.fate = "run" =>
             /\ Head(ready[c]) = Completion("timer", "success")
             /\ Outstanding(c, "read") = 0
             /\ input_dev'[c] = input_dev[c]
        /\ Outstanding(c, "timer") > 0 /\ ~(op'.name = "destructor" /\ op'.c = c) =>
             /\ input_dev'[c] = input_dev[c]
             /\ ~(op'.name = "handle_response" /\ op'.c = c)
        /\ Outstanding(c, "read") > 0 =>
             ~(op'.name = "timer_handler" /\ op'.c = c)

\* C14: in one run of the handler the publishes come first, then the close
\* and the open of the descriptor, then assign, then the timer; while that
\* timer is outstanding no handler of the channel runs and the descriptor is
\* not replaced; the next read is started by the handler of that timer's
\* expiry, with no read outstanding, on the descriptor as the cycle left it.
C14_StagesInOrder ==
    []StageOrder /\ [][CyclesInOrder]_vars

\* C14 witness: a cycle has published a value and two alarms, reopened and
\* armed the timer
C14_Witness ==
    /\ HandlerRan /\ ~destroyed[op.c] /\ Len(out) = 3
    /\ op.stages = <<"getline", "stof", "set_property", "set_property",
                     "set_property", "close", "open", "assign", "async_wait">>
    /\ timers[op.c] = 1 /\ input_dev[op.c] = "open"

\* C14 witness of the next read: started by the timer of a failed cycle
C14_WitnessNextRead ==
    /\ op.name = "timer_handler" /\ op.fate = "run" /\ ~destroyed[op.c]
    /\ reads[op.c] = 1 /\ input_dev[op.c] = "open" /\ err_count[op.c] > 0

Levels == {"WARNING", "CRITICAL"}
Directions == {"HIGH", "LOW"}

\* the alarm identity of (level, direction)
Identity(level, direction) ==
    IF level = "WARNING"
    THEN (IF direction = "HIGH" THEN "WarningAlarmHigh" ELSE "WarningAlarmLow")
    ELSE (IF direction = "HIGH" THEN "CriticalAlarmHigh" ELSE "CriticalAlarmLow")

\* assert_thresholds maps each (level, direction) whose interface exists to
\* its own identity
IdentityMapped ==
    \A l \in Levels, d \in Directions, T \in TripValues :
        /\ AlarmProperty(<<Threshold(l, d, T)>>, l, d) = Identity(l, d)
        /\ \A l2 \in Levels, d2 \in Directions :
             Identity(l, d) = Identity(l2, d2) => l = l2 /\ d = d2

\* the alarm events of the evaluation that follows the value event at i
EvaluationAt(i) ==
    {k \in AlarmEvents :
        k > i /\ \A m \in AllValueEvents : m <= i \/ m > k}

\* C15: every evaluation publishes exactly one alarm for each threshold of
\* the channel, under the identity of its (level, direction), with the
\* comparison of the moment, and publishes it also when the boolean is the
\* one already on the bus.
C15_OnePublishPerThreshold ==
    /\ IdentityMapped
    /\ \A i \in AllValueEvents :
         /\ Cardinality(EvaluationAt(i)) = Len(thresholds[op.c])
         /\ \A j \in 1..Len(thresholds[op.c]) :
              LET t == thresholds[op.c][j]
                  mine == {k \in EvaluationAt(i) :
                              out[k].name = Identity(t.level, t.direction)}
              IN  /\ Cardinality(mine) = 1
                  /\ \A k \in mine :
                       out[k].b <=> Strict(t.direction, out[i].v, t.value)

\* C15 witness: an evaluation of a changed value publishes both alarms
\* although neither boolean changed
C15_Witness ==
    /\ HandlerRan /\ ~IsNaN(op.value0) /\ ValueEvents("sample") # {}
    /\ Cardinality(AlarmEvents) = 2
    /\ \A k \in AlarmEvents : out[k].b = op.alarm0[out[k].name]

\* C15 witness of a change: one alarm published true, one published false
C15_WitnessMixed ==
    /\ \E k \in AlarmEvents : out[k].b
    /\ \E k \in AlarmEvents : ~out[k].b

\* the step runs the read handler of c with the closed-descriptor outcome, or
\* the timer handler of c with the cancelled outcome
TeardownCompletion(c) ==
    /\ op'.c = c
    /\ \/ op'.name = "handle_response" /\ op'.ec = "bad_file_descriptor"
       \/ op'.name = "timer_handler" /\ op'.ec = "operation_aborted"

NothingDone(c) ==
    /\ out' = <<>> /\ crashed' = crashed
    /\ ready'[c] = Tail(ready[c])
    /\ value' = value /\ err_count' = err_count /\ alarm' = alarm
    /\ input_dev' = input_dev /\ read_buf' = read_buf
    /\ reads' = reads /\ timers' = timers
    /\ thresholds' = thresholds /\ trip_property' = trip_property
    /\ evaluated' = evaluated /\ op'.stages = <<>>

\* C16: a read handler called with bad_file_descriptor and a timer handler
\* called with operation_aborted return at once: nothing is published, no
\* count, value, alarm, descriptor or buffer changes, nothing is reopened,
\* no timer is armed and no read is started.
C16_TeardownCompletionsDoNothing ==
    [][\A c \in Sensors : TeardownCompletion(c) => NothingDone(c)]_vars

\* C16 witness: a read started on the closed descriptor of a destroyed
\* channel completed with bad_file_descriptor and its handler returned
C16_Witness ==
    /\ op.name = "handle_response" /\ op.ec = "bad_file_descriptor"
    /\ op.fate = "returned" /\ destroyed[op.c] /\ ~crashed
    /\ Inactive(op.c)

\* C16 witness: the timer cancelled by the destructor, handler returned
C16_WitnessTimer ==
    /\ op.name = "timer_handler" /\ op.ec = "operation_aborted"
    /\ op.fate = "returned" /\ destroyed[op.c] /\ ~crashed
    /\ Inactive(op.c)

\* the tenth consecutive failure has just been counted
TenthFailure == HandlerRan /\ CycleFailed /\ err_count[op.c] = 10

\* C17: the tenth consecutive failure publishes 0 through update_value
\* whatever the current value is, 0 included; the value becomes 0 and every
\* threshold is evaluated against 0: a Low threshold with a trip value above
\* 0 is published true, a High threshold with a trip value of 0 or more is
\* published false.
C17_SentinelThroughUpdate ==
    TenthFailure =>
        /\ Cardinality(ValueEvents("sentinel")) = 1
        /\ \A i \in ValueEvents("sentinel") :
             /\ out[i].v = Num(0) /\ i = 1
             /\ Len(out) = 1 + Len(thresholds[op.c])
        /\ value[op.c] = Num(0)
        /\ \A j \in 1..Len(thresholds[op.c]) :
             LET t == thresholds[op.c][j]
             IN  /\ out[1 + j].kind = "Alarm" /\ out[1 + j].v = Num(0)
                 /\ out[1 + j].name = Identity(t.level, t.direction)
                 /\ t.direction = "LOW" /\ Above(t.value, Num(0)) => out[1 + j].b
                 /\ t.direction = "HIGH" /\ ~Below(t.value, Num(0)) => ~out[1 + j].b
                 /\ alarm[op.c][out[1 + j].name] = out[1 + j].b

\* C17 witness: the forced 0 is published while the current value is 0; the
\* Low alarm is published true and the High alarm false
C17_Witness ==
    /\ TenthFailure /\ ~destroyed[op.c] /\ op.value0 = Num(0)
    /\ ValueEvents("sentinel") = {1}
    /\ alarm[op.c]["WarningAlarmLow"] /\ ~alarm[op.c]["CriticalAlarmHigh"]

\* C17 witness with a current value other than 0
C17_WitnessFromValue ==
    /\ TenthFailure /\ ~destroyed[op.c] /\ op.value0 = Num(4)
    /\ ValueEvents("sentinel") = {1} /\ value[op.c] = Num(0)

\* C18 (as the specification states it): when the first open of sensor 1
\* fails the channel is built, its first read completes with
\* bad_file_descriptor and the handler returns as for teardown: the count
\* stays 0 and the value NaN, nothing is published, nothing is reopened, no
\* timer is armed and no read is started; the process is not ended by it.
C18_FirstOpenFailureQuiet ==
    /\ 1 \in constructed
    /\ op.name = "constructor" =>
         /\ op.fate = "run" /\ ~crashed
         /\ ready[1] = <<Completion("read", "bad_file_descriptor")>>
    /\ err_count[1] = 0 /\ IsNaN(value[1])
    /\ input_dev[1] = "closed" /\ reads[1] = 0 /\ timers[1] = 0
    /\ \A i \in 1..Len(ready[1]) : ready[1][i].ec = "bad_file_descriptor"
    /\ op.c = 1 /\ op.name = "handle_response" => op.fate = "returned"
    /\ op.c = 1 => AllValueEvents = {} /\ AlarmEvents = {}

\* C18 witness: the constructor of sensor 1 threw: there is no channel, no
\* read was started, and the exception was not caught
C18_Witness ==
    /\ op.name = "constructor" /\ op.fate = "throw" /\ 1 \notin constructed
    /\ ready[1] = <<>> /\ reads[1] = 0 /\ crashed

\* C18 witness of the other outcome: the read on the descriptor that is not
\* open completed with bad_file_descriptor and the handler returned
C18_WitnessReturned ==
    /\ 1 \in constructed /\ ~destroyed[1]
    /\ op.name = "handle_response" /\ op.c = 1 /\ op.fate = "returned"
    /\ op.ec = "bad_file_descriptor" /\ Inactive(1)
    /\ err_count[1] = 0 /\ IsNaN(value[1])

\* C18, the outcome in which the channel is built: every consequence the
\* specification lists holds for the channel whose first open failed
C18_QuietWhenBuilt == 1 \in constructed => C18_FirstOpenFailureQuiet

\* the lines the device of channel c can deliver in one read
DeviceLines(c) ==
    {GetLine(d.data)[1] : d \in {e \in device[c] : FirstNL(e.data, 1) # 0}}

\* C19 (as the specification states it): whenever a read waits on the handle
\* the read buffer held nothing when it was started, and the text a cycle
\* parses is one line the device delivered in that cycle, with no bytes of an
\* earlier cycle in front of it.
C19_ReadStartsEmpty ==
    /\ \A c \in constructed : reads[c] > 0 => read_buf[c] = <<>>
    /\ HandlerRan /\ op.ec = "success" => op.line \in DeviceLines(op.c)

\* C19 witness: the bytes "8000" of a read that ended with eof before the
\* newline are parsed in front of the next sample "8000": the line is
\* "80008000" and its value is published
C19_Witness ==
    /\ CycleParsed /\ op.c = 1
    /\ op.line = <<"8", "0", "0", "0", "8", "0", "0", "0">>
    /\ ValueEvents("sample") # {}
    /\ FEq(value[1], Norm(80008, 2))

\* C19 witness: a read is started while the buffer holds the bytes of the
\* failed read before it
C19_WitnessLeftover ==
    /\ op.name = "timer_handler" /\ op.fate = "run" /\ reads[op.c] > 0
    /\ read_buf[op.c] = <<"8", "0", "0", "0">>

\* the alarm property of threshold j of channel c ("" when it has none)
AlarmName(c, j) ==
    AlarmProperty(thresholds[c], thresholds[c][j].level, thresholds[c][j].direction)

\* a published alarm of channel c is not the comparison of the current value
\* with the current trip value
Stale(c) ==
    \E j \in 1..Len(thresholds[c]) :
        /\ AlarmName(c, j) # ""
        /\ alarm[c][AlarmName(c, j)] #
             Strict(thresholds[c][j].direction, value[c], thresholds[c][j].value)

\* the step is a cycle of channel c that publishes a value
PublishesValue(c) ==
    /\ op'.name = "handle_response" /\ op'.c = c
    /\ \E i \in 1..Len(out') : out'[i].kind = "Value"

\* the step is a successful cycle of channel c whose computed value equals
\* the current value
EqualCycle(c) ==
    /\ op'.name = "handle_response" /\ op'.c = c
    /\ op'.fate \notin {"returned", "crash"}
    /\ op'.ec = "success" /\ op'.parse = "ok"
    /\ FEq(Transform(Stof(op'.line).val, scale_factor[c]), value[c])

\* C20: the published alarms of a channel change only in a step that
\* publishes its value: a trip-value write leaves them as they were, and a
\* successful cycle that computes the current value again publishes nothing
\* and evaluates nothing, so an alarm made stale by the write is still stale
\* after it, cycle after cycle.
C20_AlarmsStaleUntilPublish ==
    [][\A c \in Sensors :
          /\ alarm'[c] # alarm[c] => PublishesValue(c)
          /\ op'.name = "set_threshold" /\ op'.c = c =>
               alarm'[c] = alarm[c] /\ value'[c] = value[c]
          /\ EqualCycle(c) =>
               /\ out' = <<>> /\ alarm'[c] = alarm[c]
               /\ evaluated'[c] = evaluated[c]
               /\ Stale(c) => Stale(c)']_vars

\* C20 witness: after a trip-value write a successful cycle computed the
\* current value again and left an alarm stale: WarningAlarmLow is still
\* false although the value 4 is below the new trip value 4.5
C20_Witness ==
    /\ CycleParsed /\ op.c = 1 /\ out = <<>>
    /\ FEq(Computed, value[1]) /\ Stale(1)
    /\ thresholds[1][2].value = Norm(9, 2) /\ ~alarm[1]["WarningAlarmLow"]
    /\ FLt(value[1], Norm(9, 2))
    /\ evaluated[1][2] # Trips(1)

\* C20 witness of the write that makes an alarm stale
C20_WitnessWrite ==
    /\ op.name = "set_threshold" /\ Stale(op.c) /\ ~IsNaN(value[op.c])

====
